---------------------------- MODULE Spec2Model ----------------------------
(***************************************************************************)
(* Model of src/src/sugiyama/decross/opt.ts: the optimal decrossing        *)
(* operator (optCall and its integer program), the Coffman-Graham layering *)
(* operator (coffmanGrahamCall) and the immutable configuration setters of *)
(* both operators.                                                         *)
(***************************************************************************)
EXTENDS Integers, Sequences, FiniteSets, TLC

VARIABLES
    \* ---- opt decrossing call ----
    pc,         \* position in optCall: "call", "error", "build", "solve", "done"
    clowntown,  \* options.clowntown of the operator being called
    layers,     \* the caller-owned layering: a sequence of sequences of nodes
    layers0,    \* the layering as the caller passed it (history variable)
    children,   \* children[n]: the sequence n.ichildren() iterates
    ids,        \* the ids map of optCall: node -> id string (code units)
    model,      \* the integer program under construction
    ordering,   \* the object Solve(model) returned
    \* ---- Coffman-Graham call ----
    cgpc,       \* position in coffmanGrahamCall: "call", "loop", "done", "error"
    optWidth,   \* options.width of the operator being called
    dagV,       \* dag.size(): the nodes of the dag are 1..dagV
    dagKids,    \* dagKids[n]: the children of node n
    maxWidth,   \* the local maxWidth
    before,     \* data.get(n).before
    parents,    \* data.get(n).parents
    queue,      \* the nodes held by the priority queue
    idx,        \* the local i: the node index
    curLayer,   \* the local layer: the layer being assigned
    curWidth,   \* the local width: the current width
    nodeLayer,  \* n.layer, Undef while unset
    added,      \* added[n]: the number of queue.add(n) calls so far (history)
    polled,     \* the nodes queue.poll() returned, in order (history)
    \* ---- the operators and their configuration ----
    cgOps,      \* the options of every Coffman-Graham operator built so far
    optOps,     \* the options of every opt operator built so far
    cgBuilt,    \* the width each Coffman-Graham operator was built with (history)
    optBuilt,   \* the clowntown each opt operator was built with (history)
    lastCall    \* the last setter call and its outcome (history)

optVars == <<pc, clowntown, layers, layers0, children, ids, model, ordering>>
cgVars == <<cgpc, optWidth, dagV, dagKids, maxWidth, before, parents, queue,
            idx, curLayer, curWidth, nodeLayer, added, polled>>
cfgVars == <<cgOps, optOps, cgBuilt, optBuilt, lastCall>>
vars == <<optVars, cgVars, cfgVars>>

----------------------------------------------------------------------------
\* Bounds of the model.

\* Largest number of nodes of a layering the model solves a program for.
MaxNodes == 6
\* Largest number of edges of a layering.
MaxEdges == 6
\* Largest layer of a layering the model solves a program for.
MaxLayer == MaxNodes \div 2

\* Largest number of nodes of a dag that is layered.
MaxV == 4
\* Largest configured width.
MaxWidth == 3
\* Largest number of operators of one kind that are built.
MaxOps == 3

\* The size guard's threshold.
SizeLimit == 2500

----------------------------------------------------------------------------
\* Generic helpers.

Max2(a, b) == IF a >= b THEN a ELSE b

RECURSIVE SumSeq(_)
SumSeq(s) == IF s = <<>> THEN 0 ELSE Head(s) + SumSeq(Tail(s))

RECURSIVE SumOver(_, _)
\* The sum of f[k] over the keys k in S.
SumOver(S, f) ==
    IF S = {} THEN 0
    ELSE LET k == CHOOSE k \in S : TRUE IN f[k] + SumOver(S \ {k}, f)

Range(s) == {s[k] : k \in DOMAIN s}

\* Sequences over S without repetition.
ListsOver(S) ==
    {q \in UNION {[1..k -> S] : k \in 0..Cardinality(S)} :
        \A a, b \in DOMAIN q : a # b => q[a] # q[b]}

\* All orders of the elements of the sequence s.
PermsOf(s) == {q \in [DOMAIN s -> Range(s)] : Range(q) = Range(s)}

PosIn(s, x) == CHOOSE k \in DOMAIN s : s[k] = x

----------------------------------------------------------------------------
\* Id strings and their comparison.

RECURSIVE Digits(_)
\* The decimal digits of n as code units.
Digits(n) == IF n < 10 THEN <<48 + n>> ELSE Append(Digits(n \div 10), 48 + (n % 10))

\* `(${i} ${j})`
IdStr(i, j) == <<40>> \o Digits(i) \o <<32>> \o Digits(j) \o <<41>>

RECURSIVE StrCmp(_, _)
\* Comparison of two strings by code units: -1, 0 or 1.
StrCmp(a, b) ==
    IF a = <<>> THEN (IF b = <<>> THEN 0 ELSE -1)
    ELSE IF b = <<>> THEN 1
    ELSE IF Head(a) < Head(b) THEN -1
    ELSE IF Head(a) > Head(b) THEN 1
    ELSE StrCmp(Tail(a), Tail(b))

\* The ids map built at the start of optCall from the layering lay.
BuildIds(lay) ==
    [n \in UNION {Range(lay[i]) : i \in DOMAIN lay} |->
        LET i == CHOOSE i \in DOMAIN lay : n \in Range(lay[i])
        IN  IdStr(i - 1, PosIn(lay[i], n) - 1)]

\* comp of optCall under the ids map idm.
compIds(idm, n1, n2) == StrCmp(idm[n1], idm[n2])

\* key of optCall for two nodes: the two nodes in id order stand for the
\* joined string of their sorted ids.
keyIds(idm, n1, n2) == IF compIds(idm, n1, n2) <= 0 THEN <<n1, n2>> ELSE <<n2, n1>>

\* key of optCall for three nodes.
key3Ids(idm, n1, n2, n3) ==
    CHOOSE t \in PermsOf(<<n1, n2, n3>>) :
        compIds(idm, t[1], t[2]) <= 0 /\ compIds(idm, t[2], t[3]) <= 0

\* Array.prototype.sort under the comparator cmp (its values, as a function of
\* the pair compared): the sorted orders of s; an inconsistent comparator
\* leaves the order to the engine.
JsSort(s, cmp) ==
    LET sorted == {q \in PermsOf(s) :
                      \A a, b \in DOMAIN q : a < b => cmp[<<q[a], q[b]>>] <= 0}
    IN  IF sorted = {} THEN PermsOf(s) ELSE sorted

----------------------------------------------------------------------------
\* The opt decrossing call: the input family.

\* The nodes of a layering with layer sizes s are numbered layer by layer.
Offset(s, i) == SumSeq(SubSeq(s, 1, i - 1))

LayersOf(s) == [i \in DOMAIN s |-> [j \in 1..s[i] |-> Offset(s, i) + j]]

\* The layer (index) of node n in a layering with layer sizes s.
LayerOfNode(s, n) == CHOOSE i \in DOMAIN s : Offset(s, i) < n /\ n <= Offset(s, i) + s[i]

\* The nodes below node n: those of the next layer (none for the last layer).
Below(s, n) ==
    LET i == LayerOfNode(s, n)
    IN  IF i = Len(s) THEN {} ELSE Range(LayersOf(s)[i + 1])

RECURSIVE KidFns(_, _)
\* The children sequences of nodes 1..n of a valid layering (every edge goes
\* to the next layer) with at most MaxEdges edges.
KidFns(s, n) ==
    IF n = 0 THEN {<<>>}
    ELSE {Append(pl[1], pl[2]) :
            pl \in {ql \in KidFns(s, n - 1) \X ListsOver(Below(s, n)) :
                      SumSeq([k \in DOMAIN ql[1] |-> Len(ql[1][k])]) + Len(ql[2]) <= MaxEdges}}

\* Layer sizes of the layerings that are solved: every layering of one or
\* two layers within the bounds, and two of three layers.
SmallShapes ==
    {s \in [1..1 -> 0..MaxLayer] \cup [1..2 -> 0..MaxLayer] : SumSeq(s) <= MaxNodes}
        \cup {<<1, 2, 2>>, <<2, 2, 1>>}

\* Layer sizes around the size guard's threshold; these layerings have no edges.
LargeShapes ==
    {<<50>>, <<51>>, <<50, 1>>, <<35, 35, 7>>, <<35, 35, 8>>, <<30, 40>>, <<30, 41>>}

SumSquares(lay) == SumSeq([i \in DOMAIN lay |-> Len(lay[i]) * Len(lay[i])])

NodesOf(lay) == UNION {Range(lay[i]) : i \in DOMAIN lay}

----------------------------------------------------------------------------
\* The integer program optCall builds.

EmptyModel == [ints |-> {}, tri |-> <<>>, slack |-> <<>>]

\* perms: the layer sorted by id.
permsSorted(idm, layer) ==
    CHOOSE q \in JsSort(layer, [t \in Range(layer) \X Range(layer) |->
                                    compIds(idm, t[1], t[2])]) : TRUE

\* perms: one 0/1 variable per pair of nodes of the (sorted) layer.
permsPairs(idm, layer) ==
    {keyIds(idm, layer[t[1]], layer[t[2]]) :
        t \in {t \in (DOMAIN layer) \X (DOMAIN layer) : t[1] < t[2]}}

\* The coefficients of pair1, pair2 and pair3 in both triangle constraints.
TriangleCoeff == <<1, -1, 1>>

\* perms: for every n1, n2, n3 in layer order the triangle constraints,
\* named by key(n1, n2, n3), over pair1, pair2 and pair3.
permsTriangles(idm, layer) ==
    LET T == {t \in (DOMAIN layer) \X (DOMAIN layer) \X (DOMAIN layer) :
                 t[1] < t[2] /\ t[2] < t[3]}
    IN  [k \in {key3Ids(idm, layer[t[1]], layer[t[2]], layer[t[3]]) : t \in T} |->
            LET t == CHOOSE t \in T : key3Ids(idm, layer[t[1]], layer[t[2]], layer[t[3]]) = k
            IN  <<keyIds(idm, layer[t[1]], layer[t[2]]),
                  keyIds(idm, layer[t[1]], layer[t[3]]),
                  keyIds(idm, layer[t[2]], layer[t[3]])>>]

RECURSIVE PairSeq(_, _, _)
\* The pairs (p1, p2) of a layer in the order cross visits them.
PairSeq(l, i, j) ==
    IF i >= Len(l) THEN <<>>
    ELSE IF j > Len(l) THEN PairSeq(l, i + 1, i + 2)
    ELSE <<(<<l[i], l[j]>>)>> \o PairSeq(l, i, j + 1)

RECURSIVE ComboSeq(_, _, _, _)
\* The (c1, c2) of children sequences k1 and k2 in the order cross visits
\* them, c1 = c2 skipped.
ComboSeq(k1, k2, a, b) ==
    IF a > Len(k1) THEN <<>>
    ELSE IF b > Len(k2) THEN ComboSeq(k1, k2, a + 1, 1)
    ELSE (IF k1[a] = k2[b] THEN <<>> ELSE <<(<<k1[a], k2[b]>>)>>)
         \o ComboSeq(k1, k2, a, b + 1)

RECURSIVE CrossSeq(_, _)
\* Every (p1, p2, c1, c2) cross visits for the parent pairs ps, in order.
CrossSeq(kids, ps) ==
    IF ps = <<>> THEN <<>>
    ELSE LET p == Head(ps)
             cs == ComboSeq(kids[p[1]], kids[p[2]], 1, 1)
         IN  [k \in DOMAIN cs |-> <<p[1], p[2], cs[k][1], cs[k][2]>>]
             \o CrossSeq(kids, Tail(ps))

\* The name of the slack variable of (p1, p2, c1, c2).
slackKey(idm, q) == <<keyIds(idm, q[1], q[2]), keyIds(idm, q[3], q[4])>>

RECURSIVE crossFold(_, _, _)
\* cross: each visit assigns model.variables[slack] and the sign of pairc in
\* the two constraints of that slack, replacing what an earlier visit stored
\* under the same name.
crossFold(idm, qs, acc) ==
    IF qs = <<>> THEN acc
    ELSE LET q == Head(qs)
         IN  crossFold(idm, Tail(qs),
                       (slackKey(idm, q) :> compIds(idm, q[3], q[4])) @@ acc)

RECURSIVE crossLayers(_, _, _, _, _)
\* cross applied to layers i..last of lay, in order.
crossLayers(idm, kids, lay, i, last) ==
    IF i > last THEN <<>>
    ELSE CrossSeq(kids, PairSeq(lay[i], 1, 2)) \o crossLayers(idm, kids, lay, i + 1, last)

\* The layers cross is applied to: layers.slice(0, layers.length - 1).
crossLast(lay) == Len(lay) - 1

\* The model after the perms and cross loops over the (sorted) layering lay.
BuildModel(idm, kids, lay) ==
    [ints  |-> UNION {permsPairs(idm, lay[i]) : i \in DOMAIN lay},
     tri   |-> LET f == [i \in DOMAIN lay |-> permsTriangles(idm, lay[i])]
               IN  [k \in UNION {DOMAIN f[i] : i \in DOMAIN lay} |->
                       f[CHOOSE i \in DOMAIN lay : k \in DOMAIN f[i]][k]],
     slack |-> crossFold(idm, crossLayers(idm, kids, lay, 1, crossLast(lay)), <<>>)]

----------------------------------------------------------------------------
\* The solver: Solve(model) returns an optimal solution of the program.

\* The bounds of the two triangle constraints.
triangleMax == 1
triangleMin == 0

\* The left-hand side of the triangle constraints named k under x.
TriValue(m, x, k) ==
    TriangleCoeff[1] * x[m.tri[k][1]] + TriangleCoeff[2] * x[m.tri[k][2]]
        + TriangleCoeff[3] * x[m.tri[k][3]]

TriOKUpOnly(m, x) == \A k \in DOMAIN m.tri : TriValue(m, x, k) <= triangleMax

\* x satisfies triangleUp (max) and triangleDown (min) of every triangle.
TriOK(m, x) ==
    \A k \in DOMAIN m.tri :
        triangleMin <= TriValue(m, x, k) /\ TriValue(m, x, k) <= triangleMax

\* The feasible values of the pair variables: integers (ints), at least 0,
\* at most 1 (the pair constraint), satisfying the triangle constraints.
Feasible(m) == {x \in [m.ints -> 0..1] : TriOK(m, x)}

\* The least value the slack variable named k can take under x:
\*   slackUp:   slack + pairp + sign * pairc >= flip
\*   slackDown: slack - pairp - sign * pairc >= -flip
SlackValue(m, x, k) ==
    LET sign == m.slack[k]
        flip == Max2(sign, 0)
        e    == x[k[1]] + sign * x[k[2]]
    IN  Max2(0, Max2(flip - e, e - flip))

\* The least objective value (opt: 1 for every slack variable) under x.
Objective(m, x) ==
    SumOver(DOMAIN m.slack, [k \in DOMAIN m.slack |-> SlackValue(m, x, k)])

OptimalSolutions(m) ==
    LET F    == Feasible(m)
        obj  == [x \in F |-> Objective(m, x)]
        vals == {obj[x] : x \in F}
        best == CHOOSE v \in vals : \A w \in vals : v <= w
    IN  {x \in F : obj[x] = best}

\* x without the variables whose value is 0.
NonZero(x) == [k \in {k \in DOMAIN x : x[k] # 0} |-> x[k]]

\* What Solve may return for the pair variables: an optimal solution, with
\* its zero-valued variables present or left out.
SolveResults(m) == UNION {{x, NonZero(x)} : x \in OptimalSolutions(m)}

\* ordering[key] || 1
ResolvedCanonical(ord, k) == IF k \in DOMAIN ord /\ ord[k] # 0 THEN ord[k] ELSE 1

\* ordering[key] || -1
Resolved(ord, k) == IF k \in DOMAIN ord /\ ord[k] # 0 THEN ord[k] ELSE -1

\* The comparator of the final sort.
sortCmp(idm, ord, n1, n2) == compIds(idm, n1, n2) * Resolved(ord, keyIds(idm, n1, n2))

sortLayerSliced(idm, ord, layer) ==
    JsSort(SubSeq(layer, 2, Len(layer)),
           [t \in Range(layer) \X Range(layer) |-> sortCmp(idm, ord, t[1], t[2])])

\* The orders the final sort may leave the layer in.
sortLayer(idm, ord, layer) ==
    JsSort(layer, [t \in Range(layer) \X Range(layer) |-> sortCmp(idm, ord, t[1], t[2])])

----------------------------------------------------------------------------
\* optCall, step by step.

TooLargeAtLimit(ct, lay) == ~ct /\ SumSquares(lay) >= SizeLimit

\* The condition of the check for large input.
TooLarge(ct, lay) == ~ct /\ SumSquares(lay) > SizeLimit

\* No opt call is made.
IdleOpt ==
    /\ pc = "idle"
    /\ clowntown = FALSE
    /\ layers = <<>>
    /\ layers0 = <<>>
    /\ children = <<>>
    /\ ids = <<>>
    /\ model = EmptyModel
    /\ ordering = <<>>

InitOptCall ==
    /\ pc = "call"
    /\ clowntown \in BOOLEAN
    /\ \E s \in SmallShapes \cup LargeShapes :
          /\ layers = LayersOf(s)
          /\ IF s \in SmallShapes
             THEN children \in KidFns(s, SumSeq(s))
             ELSE children = [n \in 1..SumSeq(s) |-> <<>>]
    /\ layers0 = layers
    /\ ids = <<>>
    /\ model = EmptyModel
    /\ ordering = <<>>

\* The check for large input throws.
OptGuardThrow ==
    /\ pc = "call"
    /\ TooLarge(clowntown, layers)
    /\ pc' = "error"
    /\ UNCHANGED <<clowntown, layers, layers0, children, ids, model, ordering, cgVars, cfgVars>>

\* The check for large input passes.
OptGuardPass ==
    /\ pc = "call"
    /\ ~TooLarge(clowntown, layers)
    /\ pc' = "build"
    /\ UNCHANGED <<clowntown, layers, layers0, children, ids, model, ordering, cgVars, cfgVars>>

\* The ids map, then perms for every layer (which sorts the layer), then
\* cross for every layer but the last.
OptBuild ==
    /\ pc = "build"
    /\ \A i \in DOMAIN layers : Len(layers[i]) <= MaxLayer
    /\ Cardinality(NodesOf(layers)) <= MaxNodes
    /\ \E idm \in {BuildIds(layers)} :
       \E sorted \in {[i \in DOMAIN layers |-> permsSorted(idm, layers[i])]} :
          /\ ids' = idm
          /\ layers' = sorted
          /\ model' = BuildModel(idm, children, sorted)
    /\ pc' = "solve"
    /\ UNCHANGED <<clowntown, layers0, children, ordering, cgVars, cfgVars>>

\* Solve, then the final sort of every layer.
OptSolve ==
    /\ pc = "solve"
    /\ \E r \in SolveResults(model) :
       \E sl \in {[i \in DOMAIN layers |-> sortLayer(ids, r, layers[i])]} :
       \E nl \in {f \in [DOMAIN layers -> UNION {sl[i] : i \in DOMAIN layers}] :
                     \A i \in DOMAIN layers : f[i] \in sl[i]} :
          /\ ordering' = r
          /\ layers' = nl
    /\ pc' = "done"
    /\ UNCHANGED <<clowntown, layers0, children, ids, model, cgVars, cfgVars>>

----------------------------------------------------------------------------
\* coffmanGrahamCall.

\* node.layer before it is assigned.
Undef == -1

\* Math.floor(Math.sqrt(v + 0.5)): the largest k with k * k <= v + 0.5.
FloorSqrtPlusHalf(v) ==
    CHOOSE k \in 0..v : 2 * k * k <= 2 * v + 1 /\ 2 * (k + 1) * (k + 1) > 2 * v + 1

\* options.width || Math.floor(Math.sqrt(dag.size() + 0.5))
MaxWidthOf(w, v) == IF w # 0 THEN w ELSE FloorSqrtPlusHalf(v)

\* The parents of node n in the order the dag is iterated.
RECURSIVE ParentSeq(_, _, _)
ParentSeq(kids, n, p) ==
    IF p = 0 THEN <<>>
    ELSE ParentSeq(kids, n, p - 1) \o (IF n \in kids[p] THEN <<p>> ELSE <<>>)

RECURSIVE compFromDropped(_, _, _)
compFromDropped(lb, rb, k) ==
    IF k > Len(lb) THEN TRUE
    ELSE IF k > Len(rb) THEN compFromDropped(lb, rb, k + 1)
    ELSE IF lb[k] < rb[k] THEN TRUE
    ELSE IF rb[k] < lb[k] THEN FALSE
    ELSE compFromDropped(lb, rb, k + 1)

RECURSIVE compFrom(_, _, _)
\* The loop of comp from entry k of leftBefore on.
compFrom(lb, rb, k) ==
    IF k > Len(lb) THEN TRUE
    ELSE IF k > Len(rb) THEN FALSE
    ELSE IF lb[k] < rb[k] THEN TRUE
    ELSE IF rb[k] < lb[k] THEN FALSE
    ELSE compFrom(lb, rb, k + 1)

\* comp(left, right) of the queue.
comp(left, right) == compFrom(before[left], before[right], 1)

\* queue.poll(): the priority queue hands out a node that comp puts before
\* every other node it holds; which one among several is up to the heap.
PollCandidates(q) == {n \in q : \A e \in q : comp(n, e)}

RECURSIVE InsertDesc(_, _)
InsertDesc(s, x) ==
    IF s = <<>> THEN <<x>>
    ELSE IF x - Head(s) > 0 THEN <<x>> \o s
    ELSE <<Head(s)>> \o InsertDesc(Tail(s), x)

RECURSIVE SortDesc(_)
\* before.sort((a, b) => b - a)
SortDesc(s) == IF s = <<>> THEN <<>> ELSE InsertDesc(SortDesc(Tail(s)), Head(s))

hasRoomInclusive(w, mw) == w <= mw

\* width < maxWidth
hasRoom(w, mw) == w < mw

parentsBelowOrLevel(n, l) == \A k \in DOMAIN parents[n] : nodeLayer[parents[n][k]] <= l

\* parents.every((p) => def(p.layer) < layer)
parentsBelow(n, l) == \A k \in DOMAIN parents[n] : nodeLayer[parents[n][k]] < l

\* def(p.layer) throws for a parent of n without a layer.
parentUnset(n) == \E k \in DOMAIN parents[n] : nodeLayer[parents[n][k]] = Undef

\* before of child c after before.push(i) and, once complete, the sort.
pushBefore(c) ==
    LET b == Append(before[c], idx)
    IN  IF Len(b) = Len(parents[c]) THEN SortDesc(b) ELSE b

isReadyOnPush(c) == Len(pushBefore(c)) >= 1

\* before.length === parents.length after the push: the child is added.
isReady(c) == Len(pushBefore(c)) = Len(parents[c])

\* No Coffman-Graham call is made.
IdleCG ==
    /\ cgpc = "idle"
    /\ optWidth = 0
    /\ dagV = 0
    /\ dagKids = <<>>
    /\ maxWidth = 0
    /\ before = <<>>
    /\ parents = <<>>
    /\ queue = {}
    /\ idx = 0
    /\ curLayer = 0
    /\ curWidth = 0
    /\ nodeLayer = <<>>
    /\ added = <<>>
    /\ polled = <<>>

\* A dag of 1..MaxV nodes, numbered in a topological order, and an operator
\* of width 0..MaxWidth.
InitCGCall ==
    /\ cgpc = "call"
    /\ optWidth \in 0..MaxWidth
    /\ dagV \in 1..MaxV
    /\ dagKids \in [1..dagV -> SUBSET (1..dagV)]
    /\ \A n \in 1..dagV : \A c \in dagKids[n] : n < c
    /\ maxWidth = 0
    /\ before = <<>>
    /\ parents = <<>>
    /\ queue = {}
    /\ idx = 0
    /\ curLayer = 0
    /\ curWidth = 0
    /\ nodeLayer = [n \in 1..dagV |-> Undef]
    /\ added = [n \in 1..dagV |-> 0]
    /\ polled = <<>>

\* dag.iroots(): the nodes without a parent.
iroots == {n \in 1..dagV : \A p \in 1..dagV : n \notin dagKids[p]}

\* maxWidth, the node data, the queue seeded with the roots, the counters.
CGStart ==
    /\ cgpc = "call"
    /\ maxWidth' = MaxWidthOf(optWidth, dagV)
    /\ before' = [n \in 1..dagV |-> <<>>]
    /\ parents' = [n \in 1..dagV |-> ParentSeq(dagKids, n, dagV)]
    /\ queue' = iroots
    /\ added' = [n \in 1..dagV |-> IF n \in iroots THEN added[n] + 1 ELSE added[n]]
    /\ idx' = 0
    /\ curLayer' = 0
    /\ curWidth' = 0
    /\ cgpc' = "loop"
    /\ UNCHANGED <<optWidth, dagV, dagKids, nodeLayer, polled, optVars, cfgVars>>

\* One iteration of the while loop: poll a node, assign its layer, push the
\* node index to its children and add the children that became ready.
CGStep ==
    /\ cgpc = "loop"
    /\ \E node \in PollCandidates(queue) :
          IF hasRoom(curWidth, maxWidth) /\ parentUnset(node)
          THEN /\ cgpc' = "error"
               /\ polled' = Append(polled, node)
               /\ UNCHANGED <<before, queue, idx, curLayer, curWidth, nodeLayer, added>>
          ELSE /\ IF hasRoom(curWidth, maxWidth) /\ parentsBelow(node, curLayer)
                  THEN /\ nodeLayer' = [nodeLayer EXCEPT ![node] = curLayer]
                       /\ curWidth' = curWidth + 1
                       /\ curLayer' = curLayer
                  ELSE /\ curLayer' = curLayer + 1
                       /\ nodeLayer' = [nodeLayer EXCEPT ![node] = curLayer + 1]
                       /\ curWidth' = 1
               /\ before' = [c \in 1..dagV |->
                                IF c \in dagKids[node] THEN pushBefore(c) ELSE before[c]]
               /\ queue' = (queue \ {node}) \cup {c \in dagKids[node] : isReady(c)}
               /\ added' = [c \in 1..dagV |->
                               IF c \in dagKids[node] /\ isReady(c)
                               THEN added[c] + 1 ELSE added[c]]
               /\ polled' = Append(polled, node)
               /\ idx' = idx + 1
               /\ cgpc' = "loop"
    /\ UNCHANGED <<optWidth, dagV, dagKids, maxWidth, parents, optVars, cfgVars>>

\* queue.poll() returns undefined: the loop ends.
CGDone ==
    /\ cgpc = "loop"
    /\ queue = {}
    /\ cgpc' = "done"
    /\ UNCHANGED <<optWidth, dagV, dagKids, maxWidth, before, parents, queue, idx,
                   curLayer, curWidth, nodeLayer, added, polled, optVars, cfgVars>>

----------------------------------------------------------------------------
\* The operators: opt(), coffmanGraham() and the setters.

\* coffmanGraham(): buildOperator({ width: 0 })
DefaultCG == [width |-> 0]

\* opt(): buildOperator({ clowntown: false })
DefaultOpt == [clowntown |-> FALSE]

setWidthInPlace(ops, k, v) == [ops EXCEPT ![k] = [ops[k] EXCEPT !.width = v]]

\* width(maxWidth): buildOperator({ ...options, width: maxWidth }) on the
\* operator k; the operators after the call.
setWidth(ops, k, v) == Append(ops, [ops[k] EXCEPT !.width = v])

\* clowntown(val): buildOperator({ ...options, clowntown: val })
setClowntown(ops, k, v) == Append(ops, [ops[k] EXCEPT !.clowntown = v])

\* width(): options.width of operator k
getWidth(k) == cgOps[k].width

\* clowntown(): options.clowntown of operator k
getClowntown(k) == optOps[k].clowntown

NoCall == [op |-> "none", recv |-> 0, arg |-> 0, threw |-> FALSE, ret |-> 0]

\* No operator is reconfigured.
IdleCfg ==
    /\ cgOps = <<DefaultCG>>
    /\ optOps = <<DefaultOpt>>
    /\ cgBuilt = <<0>>
    /\ optBuilt = <<FALSE>>
    /\ lastCall = NoCall

\* width(v) on operator k: throws for a negative v, else builds an operator.
WidthSet ==
    \E k \in DOMAIN cgOps : \E v \in -1..MaxWidth :
        /\ v >= 0 => Len(cgOps) < MaxOps
        /\ IF v < 0
           THEN /\ lastCall' = [op |-> "width", recv |-> k, arg |-> v, threw |-> TRUE, ret |-> 0]
                /\ UNCHANGED <<cgOps, cgBuilt>>
           ELSE /\ cgOps' = setWidth(cgOps, k, v)
                /\ cgBuilt' = Append(cgBuilt, v)
                /\ lastCall' = [op |-> "width", recv |-> k, arg |-> v, threw |-> FALSE,
                                ret |-> Len(cgOps')]
        /\ UNCHANGED <<optOps, optBuilt, optVars, cgVars>>

\* clowntown(v) on operator k builds an operator.
ClowntownSet ==
    \E k \in DOMAIN optOps : \E v \in BOOLEAN :
        /\ Len(optOps) < MaxOps
        /\ optOps' = setClowntown(optOps, k, v)
        /\ optBuilt' = Append(optBuilt, v)
        /\ lastCall' = [op |-> "clowntown", recv |-> k, arg |-> IF v THEN 1 ELSE 0,
                        threw |-> FALSE, ret |-> Len(optOps')]
        /\ UNCHANGED <<cgOps, cgBuilt, optVars, cgVars>>

----------------------------------------------------------------------------
\* The specifications.

InitOpt == InitOptCall /\ IdleCG /\ IdleCfg

NextOpt == OptGuardThrow \/ OptGuardPass \/ OptBuild \/ OptSolve

SpecOpt == InitOpt /\ [][NextOpt]_vars

InitCG == InitCGCall /\ IdleOpt /\ IdleCfg

NextCG == CGStart \/ CGStep \/ CGDone

SpecCG == InitCG /\ [][NextCG]_vars

\* The call is sequential code: it takes its next step as long as it has one.
SpecCGFair == InitCG /\ [][NextCG]_vars /\ WF_vars(NextCG)

InitCfg == IdleCfg /\ IdleOpt /\ IdleCG

NextCfg == WidthSet \/ ClowntownSet

SpecCfg == InitCfg /\ [][NextCfg]_vars

----------------------------------------------------------------------------
\* Crossings of a layering, counted from the edges.

\* The edges leaving layer i of lay.
EdgesFrom(lay, i) ==
    {e \in Range(lay[i]) \X NodesOf(lay) : e[2] \in Range(children[e[1]])}

\* The pairs of edges between layers i and i + 1 that cross in lay.
CrossingPairs(lay, i) ==
    {ef \in EdgesFrom(lay, i) \X EdgesFrom(lay, i) :
        /\ PosIn(lay[i], ef[1][1]) < PosIn(lay[i], ef[2][1])
        /\ PosIn(lay[i + 1], ef[1][2]) > PosIn(lay[i + 1], ef[2][2])}

Crossings(lay) ==
    SumSeq([i \in 1..(Len(lay) - 1) |-> Cardinality(CrossingPairs(lay, i))])

\* Every layering that orders each layer of lay in some way.
AllOrders(lay) ==
    {f \in [DOMAIN lay -> UNION {PermsOf(lay[i]) : i \in DOMAIN lay}] :
        \A i \in DOMAIN lay : f[i] \in PermsOf(lay[i])}

MinCrossings(lay) ==
    LET vals == {Crossings(f) : f \in AllOrders(lay)}
    IN  CHOOSE v \in vals : \A w \in vals : v <= w

\* The values of the pair variables that encode the orders of lay: the
\* variable of a pair is 1 when its first node (the smaller id) comes first.
AssignOf(lay) ==
    [k \in model.ints |->
        LET i == CHOOSE i \in DOMAIN lay : k[1] \in Range(lay[i])
        IN  IF PosIn(lay[i], k[1]) < PosIn(lay[i], k[2]) THEN 1 ELSE 0]

\* The value Solve gave a pair variable, 0 when the result leaves it out.
ValueOf(k) == IF k \in DOMAIN ordering THEN ordering[k] ELSE 0

----------------------------------------------------------------------------
\* Claims about the opt decrossing call.

\* C1: after the call, with any optimal solution of the built program, the
\* number of crossings equals the minimum over all orders of the layers, and
\* so is at most the number of crossings of the caller's order.
C1_CrossingsMinimal ==
    pc = "done" =>
        /\ Crossings(layers) = MinCrossings(layers0)
        /\ Crossings(layers) <= Crossings(layers0)

\* C5: the size-guard error is raised exactly when clowntown is false and the
\* sum of the squared layer sizes exceeds 2500; it is raised before any model
\* is built and leaves every layer as it was; otherwise the call proceeds.
C5_SizeGuard ==
    /\ pc = "error" =>
          /\ ~clowntown /\ SumSquares(layers0) > 2500
          /\ layers = layers0 /\ model = EmptyModel /\ ids = <<>> /\ ordering = <<>>
    /\ pc \in {"build", "solve", "done"} => (clowntown \/ SumSquares(layers0) <= 2500)

C5_Witness ==
    /\ pc = "error"
    /\ SumSquares(layers0) = 2501

\* C6: each layer holds the same nodes as before the call, each exactly
\* once, and the number of layers is unchanged.
C6_LayersPermuted ==
    /\ Len(layers) = Len(layers0)
    /\ \A i \in DOMAIN layers0 :
          /\ Len(layers[i]) = Len(layers0[i])
          /\ Range(layers[i]) = Range(layers0[i])

C6_Witness ==
    /\ pc = "done"
    /\ \E i \in DOMAIN layers : Len(layers[i]) = 3 /\ layers[i] # layers0[i]

\* C8: for every assignment of the pair variables that encodes a total order
\* of each layer, the least objective value equals the number of crossings of
\* that order.
C8_ObjectiveIsCrossings ==
    pc = "solve" =>
        \A lay \in AllOrders(layers0) : Objective(model, AssignOf(lay)) = Crossings(lay)

\* C10: the 0/1 assignments that satisfy the triangle constraints are exactly
\* those induced by an order of every layer, and the final sort leaves the
\* layers in the order the solved variables encode.
C10_TransitivityIsTotalOrder ==
    /\ pc = "solve" => Feasible(model) = {AssignOf(lay) : lay \in AllOrders(layers0)}
    /\ pc = "done" => \A k \in model.ints : AssignOf(layers)[k] = ValueOf(k)

C10_Witness ==
    /\ pc = "done"
    /\ DOMAIN model.tri # {}
    /\ \E k \in model.ints : ValueOf(k) = 0
    /\ \E k \in model.ints : ValueOf(k) = 1

\* The pair variables the result of Solve leaves out.
MissingPairs == model.ints \ DOMAIN ordering

\* C11 as stated: after the call, for every pair variable that the result of
\* Solve leaves out, the node of the pair with the smaller id (layer index,
\* position at call time) is placed before the other.
C11_MissingIsCanonicalOrder ==
    pc = "done" => \A k \in MissingPairs : AssignOf(layers)[k] = 1

\* C11: after the call, for every pair variable that the result of Solve
\* leaves out, the direction resolves to -1 and the node of the pair with the
\* larger id is placed before the node with the smaller id.
C11_MissingIsReversedOrder ==
    pc = "done" =>
        \A k \in MissingPairs :
            /\ Resolved(ordering, k) = -1
            /\ AssignOf(layers)[k] = 0

C11_Witness ==
    /\ pc = "done"
    /\ MissingPairs # {}
    /\ DOMAIN ordering # {}
    /\ \E k \in MissingPairs : compIds(ids, k[1], k[2]) < 0

----------------------------------------------------------------------------
\* Claims about coffmanGrahamCall.

\* Math.round(Math.sqrt(v)): the largest k with k - 0.5 <= sqrt(v).
RoundSqrt(v) ==
    CHOOSE k \in 0..(v + 1) :
        (2 * k - 1) * (2 * k - 1) <= 4 * v /\ (2 * k + 1) * (2 * k + 1) > 4 * v

StrictPrefix(a, b) == Len(a) < Len(b) /\ SubSeq(b, 1, Len(a)) = a

\* C2: after the call every edge parent -> child has layer(parent) <
\* layer(child).
C2_EdgesGoDown ==
    cgpc = "done" =>
        \A p \in 1..dagV : \A c \in dagKids[p] :
            nodeLayer[p] # Undef /\ nodeLayer[p] < nodeLayer[c]

C2_Witness ==
    /\ cgpc = "done"
    /\ \E p \in 1..dagV : \E c \in dagKids[p] : nodeLayer[c] > nodeLayer[p] + 1
    /\ \E p \in 1..dagV : \E c \in dagKids[p] : nodeLayer[c] = nodeLayer[p] + 1

\* The width bound of C3: the configured width when positive, the rounded
\* square root of the number of nodes when it is 0.
WidthBound == IF optWidth > 0 THEN optWidth ELSE RoundSqrt(dagV)

NodesInLayer(l) == {n \in 1..dagV : nodeLayer[n] = l}

\* C3: at every step of the loop and after the call, no layer holds more
\* nodes than the width bound.
C3_WidthBounded ==
    cgpc # "call" => \A l \in 0..dagV : Cardinality(NodesInLayer(l)) <= WidthBound

C3_Witness ==
    /\ cgpc = "done"
    /\ optWidth = 2
    /\ \E l \in 0..dagV : Cardinality(NodesInLayer(l)) = 2
    /\ \E n \in 1..dagV : parents[n] = <<>> /\ nodeLayer[n] > 0

\* C4: with width 0 the width budget the call uses is round(sqrt(V)).
C4_AutoWidthIsRoundedSqrt ==
    (cgpc # "call" /\ optWidth = 0) => maxWidth = RoundSqrt(dagV)

\* C9 as claimed: when the readiness list of one queued node is a strict
\* prefix of the other's, comp gives the same answer both ways.
C9_PrefixComparesEqual ==
    \A a, b \in queue :
        StrictPrefix(before[a], before[b]) => (comp(a, b) <=> comp(b, a))

\* C9 as amended: when the readiness list of one queued node is a strict
\* prefix of the other's, comp puts the node with the shorter list strictly first:
\* comp(shorter, longer) is true and comp(longer, shorter) is false.
C9_PrefixComparesFirst ==
    \A a, b \in queue :
        StrictPrefix(before[a], before[b]) => (comp(a, b) /\ ~comp(b, a))

C9_Witness ==
    \E a, b \in queue :
        /\ StrictPrefix(before[a], before[b])
        /\ before[a] # <<>>

\* The loop's record so far: no node was added to the queue twice; a node
\* that was added has every parent polled and holding a layer; no parent was
\* found without a layer; and along the polled nodes the layers never go
\* down and go up by at most 1 from one node to the next.
C12_Safety ==
    cgpc \in {"loop", "done", "error"} =>
        /\ cgpc # "error"
        /\ \A n \in 1..dagV :
              /\ added[n] <= 1
              /\ added[n] = 1 <=> (n \in queue \/ n \in Range(polled))
              /\ added[n] >= 1 =>
                    \A p \in Range(parents[n]) :
                        p \in Range(polled) /\ nodeLayer[p] # Undef
        /\ \A i \in DOMAIN polled : \A j \in DOMAIN polled : i # j => polled[i] # polled[j]
        /\ \A i \in 1..(Len(polled) - 1) :
              nodeLayer[polled[i + 1]] - nodeLayer[polled[i]] \in {0, 1}

\* The loop has ended with every node added once, polled once and holding a
\* nonnegative layer.
C12_Layered ==
    /\ cgpc = "done"
    /\ Range(polled) = 1..dagV
    /\ \A n \in 1..dagV : added[n] = 1 /\ nodeLayer[n] >= 0

\* C12: in the assignment loop every node is added to the queue exactly
\* once, and only after all of its parents were polled and given a layer; the
\* layers given in polling order never decrease and grow by at most 1 per
\* poll; and the loop ends with every node holding a nonnegative layer.
C12_QueuedOnceThenLayered == []C12_Safety /\ <>C12_Layered

C12_Witness ==
    /\ cgpc = "done"
    /\ Range(polled) = 1..dagV
    /\ \E n \in 1..dagV : Len(parents[n]) >= 2 /\ added[n] = 1
    /\ \E i \in 1..(Len(polled) - 1) : nodeLayer[polled[i + 1]] = nodeLayer[polled[i]]
    /\ \E i \in 1..(Len(polled) - 1) : nodeLayer[polled[i + 1]] = nodeLayer[polled[i]] + 1

----------------------------------------------------------------------------
\* Claims about the configuration setters.

\* C7: after any sequence of setter calls every operator's getter returns
\* the value the operator was built with (0 and false for the default
\* instances), the operator a setter returns is a new one whose getter
\* returns the value set, and a rejected call builds and changes nothing.
C7_OperatorsImmutable ==
    /\ Len(cgOps) = Len(cgBuilt) /\ Len(optOps) = Len(optBuilt)
    /\ \A k \in DOMAIN cgOps : getWidth(k) = cgBuilt[k]
    /\ \A k \in DOMAIN optOps : getClowntown(k) = optBuilt[k]
    /\ getWidth(1) = 0 /\ getClowntown(1) = FALSE
    /\ (lastCall.op = "width" /\ ~lastCall.threw) =>
          /\ lastCall.ret # lastCall.recv
          /\ getWidth(lastCall.ret) = lastCall.arg
    /\ lastCall.op = "clowntown" =>
          /\ lastCall.ret # lastCall.recv
          /\ getClowntown(lastCall.ret) = (lastCall.arg = 1)
    /\ lastCall.threw <=> (lastCall.op = "width" /\ lastCall.arg < 0)

C7_Witness ==
    /\ Len(cgOps) = 3 /\ getWidth(2) = 2 /\ getWidth(3) = 1
    /\ Len(optOps) = 3 /\ getClowntown(2) /\ ~getClowntown(3)
    /\ lastCall.threw

=============================================================================
